---- MODULE Spec2Model ----
(***************************************************************************)
(* A model of src/src/echonest/audio.py:                                   *)
(*   - AudioAnalysis: a proxy that fetches each attribute listed in        *)
(*     CACHED_VARIABLES over the network once and caches it;               *)
(*   - AudioData: a fixed-capacity sample buffer with an append cursor;    *)
(*   - getpieces: assembles a list of segments into one AudioData.         *)
(*                                                                         *)
(* SpecCache is the state machine of one AudioAnalysis object, SpecAudio   *)
(* the state machine of a heap of AudioData objects.                       *)
(***************************************************************************)
EXTENDS Integers, Sequences, FiniteSets, TLC

VARIABLES
    fields,     \* AudioAnalysis: attribute name -> None or <<value>>
    pc,         \* position in refreshCachedVariables: "idle", "reset", "fetch"
    i,          \* index of the loop variable cachedVar in CACHED_VARIABLES
    reads,      \* name -> accesses that returned since the attribute was last reset
    fetches,    \* name -> getter calls that returned since the attribute was last reset
    call,       \* the latest AudioAnalysis operation: what it saw and what it did
    arrays,     \* the numpy arrays allocated so far (a heap, indexed by identity)
    bufs,       \* the AudioData objects constructed so far
    res         \* the latest AudioData operation: its arguments and its outcome

cacheVars == <<fields, pc, i, reads, fetches, call>>
audioVars == <<arrays, bufs, res>>
vars == <<fields, pc, i, reads, fetches, call, arrays, bufs, res>>

(***************************************************************************)
(* Bounds of the model.                                                    *)
(***************************************************************************)
NumCached == 3      \* how many of the 14 cached variables an object carries
MaxValue == 1       \* the getters return values in 0..MaxValue (0 is falsy)
MaxReads == 2       \* accesses counted per attribute between two resets

(***************************************************************************)
(* AudioAnalysis                                                           *)
(***************************************************************************)
CACHED_VARIABLES ==
    << "bars", "beats", "duration", "end_of_fade_in", "key", "loudness",
       "metadata", "mode", "sections", "segments", "start_of_fade_out",
       "tatums", "tempo", "time_signature" >>

\* The attributes of the modelled object: a prefix of CACHED_VARIABLES.
Names == { CACHED_VARIABLES[k] : k \in 1..NumCached }

\* An attribute holds Python's None or a value; a value v is written <<v>>.
None == << >>
Values == 0..MaxValue

\* What one call of analyze.get_<name>(id) does: return a value or raise.
Outcomes == { [ok |-> TRUE, v |-> v] : v \in Values } \cup { [ok |-> FALSE, v |-> 0] }

\* "object.__getattribute__(self, name) is None"
IsUnset_Falsy(x) == x = None \/ x = <<0>>
IsUnset(x) == x = None

\* self.__setattr__(name, value)
SetAttr(f, name, value) == [f EXCEPT ![name] = value]

\* self.__setattr__(cachedVar, None) in refreshCachedVariables
ResetAttr_Skip(f, name) == f
ResetAttr(f, name) == SetAttr(f, name, None)

\* __getattribute__(self, name) for a cached name, when the getter would do o.
\* f: the attributes after the access; called: the getter was called;
\* failed: the getter raised; raised: the access raised; value: what it returned.
GetAttribute_Swallow(f, name, o) ==
    IF IsUnset(f[name])
    THEN IF o.ok
         THEN LET g == SetAttr(f, name, <<o.v>>)
              IN [f |-> g, called |-> TRUE, failed |-> FALSE, raised |-> FALSE,
                  value |-> g[name]]
         ELSE [f |-> f, called |-> TRUE, failed |-> TRUE, raised |-> FALSE,
               value |-> f[name]]
    ELSE [f |-> f, called |-> FALSE, failed |-> FALSE, raised |-> FALSE,
          value |-> f[name]]

GetAttribute(f, name, o) ==
    IF IsUnset(f[name])
    THEN IF o.ok
         THEN LET g == SetAttr(f, name, <<o.v>>)
              IN [f |-> g, called |-> TRUE, failed |-> FALSE, raised |-> FALSE,
                  value |-> g[name]]
         ELSE [f |-> f, called |-> TRUE, failed |-> TRUE, raised |-> TRUE,
               value |-> None]
    ELSE [f |-> f, called |-> FALSE, failed |-> FALSE, raised |-> FALSE,
          value |-> f[name]]

Bump(c, name, cond) == IF cond THEN [c EXCEPT ![name] = @ + 1] ELSE c

NoCalls == [n \in Names |-> 0]

\* The state after AudioAnalysis.__init__: every cached variable is None.
InitCache ==
    /\ fields = [n \in Names |-> None]
    /\ pc = "idle"
    /\ i = 1
    /\ reads = NoCalls
    /\ fetches = NoCalls
    /\ call = [op |-> "init", name |-> "", out |-> "ok", called |-> FALSE,
               failed |-> FALSE, value |-> None, pre |-> [n \in Names |-> None],
               calls |-> NoCalls]

\* a.<name>: one attribute access by the caller.
Get(name) ==
    /\ pc = "idle"
    /\ reads[name] < MaxReads
    /\ \E o \in Outcomes :
         LET r == GetAttribute(fields, name, o) IN
           /\ fields' = r.f
           /\ reads' = Bump(reads, name, ~r.raised)
           /\ fetches' = Bump(fetches, name, r.called /\ ~r.failed)
           /\ call' = [op |-> "get", name |-> name,
                       out |-> IF r.raised THEN "error" ELSE "ok",
                       called |-> r.called, failed |-> r.failed,
                       value |-> r.value, pre |-> fields,
                       calls |-> Bump(NoCalls, name, r.called)]
    /\ UNCHANGED <<pc, i>>
    /\ UNCHANGED audioVars

\* refreshCachedVariables is entered: the loop starts at the first variable.
RefreshCachedVariables_ResetAll ==
    /\ pc = "idle"
    /\ pc' = "reset"
    /\ i' = 1
    /\ call' = [op |-> "refresh", name |-> CACHED_VARIABLES[1], out |-> "running",
                called |-> FALSE, failed |-> FALSE, value |-> None,
                pre |-> fields, calls |-> NoCalls]
    /\ fields' = [n \in Names |-> None]
    /\ reads' = NoCalls
    /\ fetches' = NoCalls
    /\ UNCHANGED audioVars

RefreshCachedVariables ==
    /\ pc = "idle"
    /\ pc' = "reset"
    /\ i' = 1
    /\ call' = [op |-> "refresh", name |-> CACHED_VARIABLES[1], out |-> "running",
                called |-> FALSE, failed |-> FALSE, value |-> None,
                pre |-> fields, calls |-> NoCalls]
    /\ UNCHANGED <<fields, reads, fetches>>
    /\ UNCHANGED audioVars

\* Loop body, first statement: self.__setattr__(cachedVar, None).
RefreshReset ==
    /\ pc = "reset"
    /\ LET name == CACHED_VARIABLES[i] IN
         /\ fields' = ResetAttr(fields, name)
         /\ reads' = IF fields'[name] = None THEN [reads EXCEPT ![name] = 0] ELSE reads
         /\ fetches' = IF fields'[name] = None THEN [fetches EXCEPT ![name] = 0]
                       ELSE fetches
         /\ call' = [call EXCEPT !.name = name]
    /\ pc' = "fetch"
    /\ UNCHANGED i
    /\ UNCHANGED audioVars

\* Loop body, second statement: self.__getattribute__(cachedVar).  A getter
\* that raises ends refreshCachedVariables; after the last variable it returns.
RefreshFetch ==
    /\ pc = "fetch"
    /\ \E o \in Outcomes :
         LET name == CACHED_VARIABLES[i]
             r == GetAttribute(fields, name, o)
             done == r.raised \/ i = NumCached
         IN
           /\ fields' = r.f
           /\ reads' = Bump(reads, name, ~r.raised /\ reads[name] < MaxReads)
           /\ fetches' = Bump(fetches, name, r.called /\ ~r.failed)
           /\ call' = [call EXCEPT
                         !.out = IF r.raised THEN "error"
                                 ELSE IF done THEN "ok" ELSE "running",
                         !.called = r.called, !.failed = r.failed,
                         !.value = None,
                         !.calls = Bump(call.calls, name, r.called)]
           /\ pc' = IF done THEN "idle" ELSE "reset"
           /\ i' = IF done THEN i ELSE i + 1
    /\ UNCHANGED audioVars

(***************************************************************************)
(* Numbers.  Python tells an int from a float; a float here is a multiple  *)
(* of 1/Den seconds, so that its product with a sample rate is exact.      *)
(***************************************************************************)
Den == 2            \* floats are the multiples of 1/Den
MaxTime == 3        \* starts and durations: ints 0..1, floats up to MaxTime/Den
MaxLen == 2         \* length of the arrays and shapes handed to AudioData
MaxRate == 2        \* sample rates are 1..MaxRate
MaxBufs == 2        \* AudioData objects alive at once
MaxSegs == 2        \* length of the segment list handed to getpieces

PyInt(k) == [t |-> "int", q |-> k]
PyFloat(k) == [t |-> "float", q |-> k]       \* the float k/Den
IsFloat(x) == x.t = "float"

\* x + y: int + int is an int, anything else a float.
Plus(x, y) ==
    IF ~IsFloat(x) /\ ~IsFloat(y) THEN PyInt(x.q + y.q)
    ELSE PyFloat((IF IsFloat(x) THEN x.q ELSE x.q * Den)
               + (IF IsFloat(y) THEN y.q ELSE y.q * Den))

\* int(n/d) for d > 0: Python's int() truncates toward zero.
Trunc(n, d) == IF n >= 0 THEN n \div d ELSE -((-n) \div d)
\* round(n/d) for d > 0: Python 2 rounds half away from zero.
Round(n, d) == IF n >= 0 THEN (2 * n + d) \div (2 * d) ELSE -((2 * (-n) + d) \div (2 * d))
\* int(x * samplerate)
ToSample_Round(x, sr) == IF IsFloat(x) THEN Round(x.q * sr, Den) ELSE x.q * sr
ToSample(x, sr) == IF IsFloat(x) THEN Trunc(x.q * sr, Den) ELSE x.q * sr

Min(a, b) == IF a <= b THEN a ELSE b
Max(a, b) == IF a >= b THEN a ELSE b

(***************************************************************************)
(* numpy arrays.  A stored array [n, pre] has n elements: those of pre,    *)
(* then zeros (pre never ends in a zero).  An ndarray object is a view     *)
(* [base, lo, n] of n elements of the stored array base from offset lo;    *)
(* base = 0 stands for Python's None.                                      *)
(***************************************************************************)
NoArray == [base |-> 0, lo |-> 0, n |-> 0]
IsNone(a) == a.base = 0

RECURSIVE Trim(_)
Trim(s) == IF s = << >> \/ s[Len(s)] # 0 THEN s ELSE Trim(SubSeq(s, 1, Len(s) - 1))

\* numpy.zeros((n,), dtype=numpy.int16)
Zeros(n) == [n |-> n, pre |-> << >>]
ReadAt(st, k) == IF k < Len(st.pre) THEN st.pre[k + 1] ELSE 0

\* The elements of the view a of heap h, as an array value [n, pre].
ViewVal(h, a) ==
    LET st == h[a.base]
        m == Max(0, Min(a.n, Len(st.pre) - a.lo))
    IN [n |-> a.n, pre |-> Trim([k \in 1..m |-> st.pre[a.lo + k]])]

\* The stored array st with the elements pos .. pos+val.n-1 replaced by val.
WriteAt(st, pos, val) ==
    LET m == Max(Len(st.pre), IF val.pre = << >> THEN 0 ELSE pos + Len(val.pre))
    IN [st EXCEPT !.pre =
          Trim([k \in 1..m |->
                  IF k > pos /\ k <= pos + val.n
                  THEN (IF k - pos <= Len(val.pre) THEN val.pre[k - pos] ELSE 0)
                  ELSE ReadAt(st, k - 1)])]

\* a[lo:hi] for 0 <= lo, 0 <= hi: a view, clipped to the array.
Slice(a, lo, hi) ==
    LET x == Min(lo, a.n)
        y == Min(hi, a.n)
    IN [base |-> a.base, lo |-> a.lo + x, n |-> Max(0, y - x)]

\* target[lo:hi] = src, both views of h.  The slice is clipped to the target; src
\* must have its length, or length 1 (numpy broadcasts one element to any
\* length, zero included); otherwise numpy raises and nothing is written.
SliceAssign(h, target, lo, hi, src) ==
    LET t == Slice(target, lo, hi)
        fits == src.n = t.n \/ src.n = 1
        v == ViewVal(h, src)
        val == IF src.n = t.n THEN v
               ELSE [n |-> t.n, pre |-> Trim([k \in 1..t.n |-> ReadAt(v, 0)])]
    IN IF ~fits THEN [ok |-> FALSE, h |-> h]
       ELSE IF t.n = 0 THEN [ok |-> TRUE, h |-> h]
       ELSE [ok |-> TRUE, h |-> [h EXCEPT ![t.base] = WriteAt(h[t.base], t.lo, val)]]

(***************************************************************************)
(* AudioData                                                               *)
(***************************************************************************)
DefaultRate == 44100
DefaultChannels == 2
NoShape == -1       \* shape=None

\* An object that was never built (the result of an operation that raised).
NoBuf == [data |-> NoArray, endindex |-> 0, samplerate |-> 0, numchannels |-> 0,
          origin |-> 0]

\* len(self)
BufLen(b) == IF IsNone(b.data) THEN 0 ELSE b.data.n

\* AudioData.__init__(ndarray=nd, shape=shape, samplerate=sr, numchannels=nch),
\* nd a numpy array of the heap h or None.  ok is FALSE when it raises.
AudioDataInit_View(h, nd, shape, sr, nch) ==
    LET new == Len(h) + 1
        alloc == (shape # NoShape)
        h1 == IF alloc THEN Append(h, Zeros(shape)) ELSE h
        data == IF shape = NoShape /\ ~IsNone(nd) THEN nd
                ELSE IF alloc THEN [base |-> new, lo |-> 0, n |-> h1[new].n]
                ELSE NoArray
        end == IF IsNone(nd) THEN 0 ELSE nd.n
        w == IF IsNone(nd) \/ ~alloc THEN [ok |-> TRUE, h |-> h1]
             ELSE SliceAssign(h1, data, 0, end, nd)
    IN [ok |-> w.ok, h |-> IF w.ok THEN w.h ELSE h,
        buf |-> [data |-> data, endindex |-> end, samplerate |-> sr,
                 numchannels |-> nch, origin |-> 0]]

AudioDataInit(h, nd, shape, sr, nch) ==
    LET new == Len(h) + 1
        alloc == (shape = NoShape /\ ~IsNone(nd)) \/ shape # NoShape
        h1 == IF shape = NoShape /\ ~IsNone(nd) THEN Append(h, Zeros(nd.n))
              ELSE IF shape # NoShape THEN Append(h, Zeros(shape))
              ELSE h
        data == IF alloc THEN [base |-> new, lo |-> 0, n |-> h1[new].n] ELSE NoArray
        end == IF IsNone(nd) THEN 0 ELSE nd.n
        w == IF IsNone(nd) THEN [ok |-> TRUE, h |-> h1]
             ELSE IF IsNone(data) THEN [ok |-> FALSE, h |-> h]
             ELSE SliceAssign(h1, data, 0, end, nd)
    IN [ok |-> w.ok, h |-> IF w.ok THEN w.h ELSE h,
        buf |-> [data |-> data, endindex |-> end, samplerate |-> sr,
                 numchannels |-> nch, origin |-> 0]]

\* What __getitem__ is indexed with.  kind "num": the number a.start; "seg": the
\* segment a; "segslice": slice(a, b) of two segments; "slice": the slice
\* a.start:b.start of two numbers.  A segment has a start and a duration.
Seg(s, d) == [start |-> s, duration |-> d]
NumKey(x) == [kind |-> "num", a |-> Seg(x, PyInt(0)), b |-> Seg(x, PyInt(0))]
SegKey(d) == [kind |-> "seg", a |-> d, b |-> d]
SegSliceKey(d, e) == [kind |-> "segslice", a |-> d, b |-> e]
SliceKey(x, y) == [kind |-> "slice", a |-> Seg(x, PyInt(0)), b |-> Seg(y, PyInt(0))]

\* The first two if-statements of __getitem__: the index that reaches
\* getslice (isslice) or getsample.
IndexOf(key, sr) ==
    IF key.kind = "num"
    THEN [isslice |-> FALSE,
          start |-> IF IsFloat(key.a.start) THEN PyInt(ToSample(key.a.start, sr))
                    ELSE key.a.start,
          stop |-> PyInt(0)]
    ELSE IF key.kind = "seg"
    THEN [isslice |-> TRUE, start |-> key.a.start,
          stop |-> Plus(key.a.start, key.a.duration)]
    ELSE IF key.kind = "segslice"
    THEN [isslice |-> TRUE, start |-> key.a.start,
          stop |-> Plus(key.b.start, key.b.duration)]
    ELSE [isslice |-> TRUE, start |-> key.a.start, stop |-> key.b.start]

\* The result of an operation that raised.
Raised(h) == [ok |-> FALSE, h |-> h, buf |-> NoBuf, sample |-> 0, isbuf |-> FALSE]

\* getslice(self, slice(start, stop)).  A float start converts both bounds to
\* samples.  Otherwise numpy gets the bounds as they are: an int start with a
\* float stop is truncated by the numpy builds that accept float bounds
\* (lenient) and raises in the others.
GetSlice(h, self, start, stop, lenient) ==
    IF IsNone(self.data) THEN Raised(h)
    ELSE IF ~IsFloat(start) /\ IsFloat(stop) /\ ~lenient THEN Raised(h)
    ELSE LET lo == IF IsFloat(start) THEN ToSample(start, self.samplerate) ELSE start.q
             hi == IF IsFloat(start) THEN ToSample(stop, self.samplerate)
                   ELSE IF IsFloat(stop) THEN Trunc(stop.q, Den) ELSE stop.q
             r == AudioDataInit(h, Slice(self.data, lo, hi), NoShape,
                                self.samplerate, DefaultChannels)
         IN IF r.ok THEN [ok |-> TRUE, h |-> r.h, buf |-> r.buf, sample |-> 0,
                          isbuf |-> TRUE]
            ELSE Raised(h)

\* getsample(self, k) for an int k: self.data[k]; a negative k counts from the
\* end, a k outside the array raises IndexError.
GetSample(h, self, k) ==
    IF IsNone(self.data) THEN Raised(h)
    ELSE LET n == self.data.n IN
         IF k >= n \/ k < -n THEN Raised(h)
         ELSE [ok |-> TRUE, h |-> h, buf |-> NoBuf, isbuf |-> FALSE,
               sample |-> ReadAt(h[self.data.base],
                                 self.data.lo + (IF k < 0 THEN n + k ELSE k))]

\* self[key]
GetItem(h, self, key, lenient) ==
    LET index == IndexOf(key, self.samplerate) IN
    IF index.isslice THEN GetSlice(h, self, index.start, index.stop, lenient)
    ELSE GetSample(h, self, index.start.q)

\* numpy.concatenate((x, y)) of two array values
Concat(x, y) ==
    [n |-> x.n + y.n,
     pre |-> IF y.pre = << >> THEN x.pre
             ELSE [k \in 1..(x.n + Len(y.pre)) |->
                     IF k <= Len(x.pre) THEN x.pre[k]
                     ELSE IF k <= x.n THEN 0 ELSE y.pre[k - x.n]]]

\* self + as2
Add(h, self, as2) ==
    IF IsNone(self.data) /\ IsNone(as2.data) THEN Raised(h)
    ELSE LET tmp == IF IsNone(self.data) THEN ViewVal(h, as2.data)
                    ELSE IF IsNone(as2.data) THEN ViewVal(h, self.data)
                    ELSE Concat(ViewVal(h, self.data), ViewVal(h, as2.data))
             h1 == Append(h, tmp)
             r == AudioDataInit(h1, [base |-> Len(h1), lo |-> 0, n |-> tmp.n],
                                NoShape, DefaultRate, DefaultChannels)
         IN IF r.ok THEN [ok |-> TRUE, h |-> r.h, buf |-> r.buf, sample |-> 0,
                          isbuf |-> TRUE]
            ELSE Raised(h)

\* self.append(as2): buf is self afterwards.
AudioAppend(h, self, as2) ==
    IF IsNone(self.data) \/ IsNone(as2.data) THEN Raised(h)
    ELSE LET n == BufLen(as2)
             w == SliceAssign(h, self.data, self.endindex, self.endindex + n, as2.data)
         IN IF ~w.ok THEN Raised(h)
            ELSE [ok |-> TRUE, h |-> w.h, sample |-> 0, isbuf |-> FALSE,
                  buf |-> [self EXCEPT !.endindex = @ + n]]

(***************************************************************************)
(* getpieces                                                               *)
(***************************************************************************)
Padding == 100000

\* The first loop of getpieces: dur += int(s.duration*audioData.samplerate)
RECURSIVE Duration(_, _)
Duration(segs, sr) ==
    IF segs = << >> THEN 0
    ELSE ToSample(segs[1].duration, sr) + Duration(Tail(segs), sr)

\* The second loop of getpieces: newAD.append(audioData[s]) for s in segs.
RECURSIVE AppendPieces(_, _, _, _, _)
AppendPieces(h, newAD, audioData, segs, lenient) ==
    IF segs = << >> THEN [ok |-> TRUE, h |-> h, buf |-> newAD]
    ELSE LET piece == GetItem(h, audioData, SegKey(segs[1]), lenient) IN
         IF ~piece.ok THEN [ok |-> FALSE, h |-> h, buf |-> newAD]
         ELSE LET a == AudioAppend(piece.h, newAD, piece.buf) IN
              IF ~a.ok THEN [ok |-> FALSE, h |-> h, buf |-> newAD]
              ELSE AppendPieces(a.h, a.buf, audioData, Tail(segs), lenient)

\* getpieces(audioData, segs), audioData.data one-dimensional.
GetPieces(h, audioData, segs, lenient) ==
    IF IsNone(audioData.data) THEN Raised(h)
    ELSE LET dur == Duration(segs, audioData.samplerate) + Padding
             new == AudioDataInit(h, NoArray, dur, audioData.samplerate, 1)
             r == AppendPieces(new.h, new.buf, audioData, segs, lenient)
         IN IF new.ok /\ r.ok
            THEN [ok |-> TRUE, h |-> r.h, buf |-> r.buf, sample |-> 0, isbuf |-> TRUE]
            ELSE Raised(h)

(***************************************************************************)
(* The AudioData state machine.  res describes the latest operation: its   *)
(* arguments, whether it returned (ok), what it returned (sample, or the   *)
(* new object bufs[new]) and the heap and the objects before it (pre).     *)
(***************************************************************************)
Iota(n) == [k \in 1..n |-> k]

IntNums == { PyInt(k) : k \in 0..MaxLen }
FloatNums == { PyFloat(q) : q \in 0..MaxTime }
Nums == IntNums \cup FloatNums
Segments == { Seg(s, d) : s \in Nums, d \in Nums }

\* The keys of the object machine: int and float indices, int slices, and the
\* segments of whole and of half seconds.
SmallKeys ==
    { NumKey(PyInt(k)) : k \in (-1)..MaxLen }
    \cup { NumKey(PyFloat(1)) }
    \cup { SliceKey(x, y) : x \in IntNums, y \in IntNums }
    \cup { SegKey(Seg(s, d)) : s \in {PyInt(0), PyFloat(1)}, d \in {PyInt(1), PyFloat(1)} }

\* The keys of the indexing machine: every number, segment and pair of segments.
AllKeys ==
    { NumKey(PyInt(k)) : k \in (-MaxLen)..MaxLen }
    \cup { NumKey(PyFloat(q)) : q \in (-MaxTime)..MaxTime }
    \cup { SliceKey(x, y) : x \in Nums, y \in Nums }
    \cup { SegKey(d) : d \in Segments }
    \cup { SegSliceKey(d, e) : d \in Segments, e \in Segments }

\* The segments handed to getpieces.
PieceSegs == { Seg(s, d) : s \in FloatNums \cup {PyInt(0)}, d \in {PyFloat(1), PyFloat(2)} }
RECURSIVE SegLists(_)
SegLists(n) ==
    IF n = 0 THEN { << >> }
    ELSE SegLists(n - 1)
         \cup { <<d>> \o l : d \in PieceSegs, l \in { m \in SegLists(n - 1) : Len(m) = n - 1 } }

\* Whether the numpy build matters to self[key]: an int start with a float stop.
BuildMatters(key) ==
    LET index == IndexOf(key, 1) IN
    index.isslice /\ ~IsFloat(index.start) /\ IsFloat(index.stop)

NoKey == NumKey(PyInt(0))

Result(op, self, other, key, segs, lenient, args, r, new) ==
    [op |-> op, self |-> self, other |-> other, key |-> key, segs |-> segs,
     lenient |-> lenient, args |-> args, ok |-> r.ok, sample |-> r.sample,
     new |-> new, pre |-> [arrays |-> arrays, bufs |-> bufs]]

\* What an operation that returned the new object r.buf does to the state.
Returns(op, self, other, key, segs, lenient, args, r) ==
    IF r.ok /\ r.isbuf
    THEN /\ arrays' = r.h
         /\ bufs' = Append(bufs, [r.buf EXCEPT !.origin = IF op = "getitem" THEN self ELSE 0])
         /\ res' = Result(op, self, other, key, segs, lenient, args, r, Len(bufs) + 1)
    ELSE /\ arrays' = r.h
         /\ bufs' = bufs
         /\ res' = Result(op, self, other, key, segs, lenient, args, r, 0)

InitAudio ==
    /\ arrays = << >>
    /\ bufs = << >>
    /\ res = [op |-> "init", self |-> 0, other |-> 0, key |-> NoKey, segs |-> << >>,
              lenient |-> TRUE, args |-> << >>, ok |-> TRUE, sample |-> 0, new |-> 0,
              pre |-> [arrays |-> << >>, bufs |-> << >>]]

\* AudioData(ndarray, shape, samplerate): the caller's array, if any, holds
\* 1..n; shape is NoShape or a length.
Construct(hasNd, n, shape, sr) ==
    LET h0 == IF hasNd THEN Append(arrays, [n |-> n, pre |-> Iota(n)]) ELSE arrays
        nd == IF hasNd THEN [base |-> Len(h0), lo |-> 0, n |-> n] ELSE NoArray
        r == AudioDataInit(h0, nd, shape, sr, DefaultChannels)
    IN Returns("init", 0, 0, NoKey, << >>, TRUE,
               <<IF hasNd THEN n ELSE NoShape, shape, sr>>,
               IF r.ok THEN [ok |-> TRUE, h |-> r.h, buf |-> r.buf, sample |-> 0,
                             isbuf |-> TRUE]
               ELSE Raised(arrays))

\* bufs[b][key]
Index(b, key, lenient) ==
    /\ b \in 1..Len(bufs)
    /\ lenient \/ BuildMatters(key)
    /\ Returns("getitem", b, 0, key, << >>, lenient, << >>,
               GetItem(arrays, bufs[b], key, lenient))

\* bufs[a].append(bufs[b]).  Nothing bounds the cursor of an object: the model
\* stops appending to one whose cursor has passed the end of its array or 2 * MaxLen.
AppendTo(a, b) ==
    /\ a \in 1..Len(bufs)
    /\ b \in 1..Len(bufs)
    /\ bufs[a].endindex <= Min(BufLen(bufs[a]), 2 * MaxLen)
    /\ LET r == AudioAppend(arrays, bufs[a], bufs[b]) IN
         /\ arrays' = r.h
         /\ bufs' = IF r.ok THEN [bufs EXCEPT ![a] = [r.buf EXCEPT !.origin = bufs[a].origin]]
                    ELSE bufs
         /\ res' = Result("append", a, b, NoKey, << >>, TRUE, << >>, r, 0)

\* bufs[a] + bufs[b]
Concatenate(a, b) ==
    /\ a \in 1..Len(bufs)
    /\ b \in 1..Len(bufs)
    /\ BufLen(bufs[a]) + BufLen(bufs[b]) <= 2 * MaxLen
    /\ Returns("add", a, b, NoKey, << >>, TRUE, << >>, Add(arrays, bufs[a], bufs[b]))

\* getpieces(bufs[b], segs)
Assemble(b, segs, lenient) ==
    /\ b \in 1..Len(bufs)
    /\ lenient \/ \E k \in 1..Len(segs) : BuildMatters(SegKey(segs[k]))
    /\ Returns("getpieces", b, 0, NoKey, segs, lenient, << >>,
               GetPieces(arrays, bufs[b], segs, lenient))

(***************************************************************************)
(* Specifications                                                          *)
(***************************************************************************)
Init == InitCache /\ InitAudio

\* One AudioAnalysis object: attribute accesses and refreshes.
GetAny == \E name \in Names : Get(name)

NextCache == GetAny \/ RefreshCachedVariables \/ RefreshReset \/ RefreshFetch

SpecCache == Init /\ [][NextCache]_vars

\* A heap of at most MaxBufs AudioData objects and the operations on them.
ConstructAny ==
    /\ Len(bufs) < MaxBufs
    /\ \E hasNd \in BOOLEAN, shape \in {NoShape} \cup 0..MaxLen, sr \in 1..MaxRate :
         \E n \in IF hasNd THEN 0..MaxLen ELSE {0} : Construct(hasNd, n, shape, sr)
    /\ UNCHANGED cacheVars

IndexAny ==
    /\ \E b \in 1..MaxBufs, key \in SmallKeys, lenient \in BOOLEAN :
         /\ key.kind = "num" \/ Len(bufs) < MaxBufs
         /\ Index(b, key, lenient)
    /\ UNCHANGED cacheVars

AppendAny ==
    /\ \E a \in 1..Len(bufs), b \in 1..Len(bufs) : AppendTo(a, b)
    /\ UNCHANGED cacheVars

ConcatenateAny ==
    /\ Len(bufs) < MaxBufs
    /\ \E a \in 1..MaxBufs, b \in 1..MaxBufs : Concatenate(a, b)
    /\ UNCHANGED cacheVars

AssembleAny ==
    /\ Len(bufs) < MaxBufs
    /\ \E b \in 1..MaxBufs, segs \in SegLists(1), lenient \in BOOLEAN :
         Assemble(b, segs, lenient)
    /\ UNCHANGED cacheVars

NextAudio == ConstructAny \/ IndexAny \/ AppendAny \/ ConcatenateAny \/ AssembleAny

SpecAudio == Init /\ [][NextAudio]_vars

\* Two AudioData objects, the first of any construction and the second built
\* from an array 1..m; the first is sliced once, and the objects are appended to
\* one another.
InitSlice ==
    /\ InitCache
    /\ \E hasNd \in BOOLEAN, shape \in {NoShape} \cup 0..MaxLen, sr \in 1..MaxRate,
          m \in 1..MaxLen :
         \E n \in IF hasNd THEN 0..MaxLen ELSE {0} :
           LET h0 == IF hasNd THEN << [n |-> n, pre |-> Iota(n)] >> ELSE << >>
               nd == IF hasNd THEN [base |-> 1, lo |-> 0, n |-> n] ELSE NoArray
               r1 == AudioDataInit(h0, nd, shape, sr, DefaultChannels)
               h1 == Append(r1.h, [n |-> m, pre |-> Iota(m)])
               r2 == AudioDataInit(h1, [base |-> Len(h1), lo |-> 0, n |-> m], NoShape,
                                   DefaultRate, DefaultChannels)
           IN /\ r1.ok
              /\ arrays = r2.h
              /\ bufs = << r1.buf, r2.buf >>
              /\ res = [op |-> "init", self |-> 0, other |-> 0, key |-> NoKey,
                        segs |-> << >>, lenient |-> TRUE, args |-> <<m, NoShape, DefaultRate>>,
                        ok |-> TRUE, sample |-> 0, new |-> 2,
                        pre |-> [arrays |-> h1, bufs |-> << r1.buf >>]]

SliceOnce ==
    /\ Len(bufs) = 2
    /\ \E key \in { k \in SmallKeys : k.kind # "num" }, lenient \in BOOLEAN :
         Index(1, key, lenient)
    /\ UNCHANGED cacheVars

NextSlice == SliceOnce \/ AppendAny

SpecSlice == InitSlice /\ [][NextSlice]_vars

\* One AudioData built from an array 1..n, then indexed or taken apart once.
InitIndex ==
    /\ InitCache
    /\ \E n \in 1..(2 * MaxLen), sr \in 1..MaxRate :
         LET h0 == << [n |-> n, pre |-> Iota(n)] >>
             r == AudioDataInit(h0, [base |-> 1, lo |-> 0, n |-> n], NoShape, sr,
                                DefaultChannels)
         IN /\ arrays = r.h
            /\ bufs = << r.buf >>
            /\ res = [op |-> "init", self |-> 0, other |-> 0, key |-> NoKey,
                      segs |-> << >>, lenient |-> TRUE, args |-> <<n, NoShape, sr>>,
                      ok |-> TRUE, sample |-> 0, new |-> 1,
                      pre |-> [arrays |-> h0, bufs |-> << >>]]

IndexOnce ==
    /\ res.op = "init"
    /\ \E key \in AllKeys, lenient \in BOOLEAN : Index(1, key, lenient)
    /\ UNCHANGED cacheVars

AssembleOnce ==
    /\ res.op = "init"
    /\ \E segs \in SegLists(MaxSegs), lenient \in BOOLEAN : Assemble(1, segs, lenient)
    /\ UNCHANGED cacheVars

NextIndex == IndexOnce \/ AssembleOnce

SpecIndex == InitIndex /\ [][NextIndex]_vars

(***************************************************************************)
(* Properties of AudioAnalysis, checked under SpecCache                    *)
(***************************************************************************)
Name(k) == CACHED_VARIABLES[k]

\* C1: between two resets of a cached variable, however often it is read and
\* whatever value the getter returned (a falsy one included), the getter returned
\* for it exactly once; an access to a variable that holds a value calls no getter
\* and returns the held value, an access to an unset one calls the getter.
C1_FetchedOnce ==
    /\ \A n \in Names : reads[n] >= 1 => fetches[n] = 1
    /\ (call.op = "get" /\ call.out = "ok") =>
          /\ call.called <=> call.pre[call.name] = None
          /\ call.value = fields[call.name]
          /\ ~call.called => (fields = call.pre /\ call.value = call.pre[call.name])

C1_Witness ==
    /\ call.op = "get" /\ call.out = "ok" /\ ~call.called
    /\ reads[call.name] = 2 /\ fetches[call.name] = 1
    /\ call.value = <<0>>

\* C2 as stated: a refreshCachedVariables that has ended has called the getter of
\* every cached variable exactly once, and if no getter raised every variable is set.
C2_AlwaysFetchesAll ==
    (call.op = "refresh" /\ pc = "idle") =>
        /\ \A n \in Names : call.calls[n] = 1
        /\ call.out = "ok" => \A n \in Names : fields[n] # None

\* C2 as amended: a refreshCachedVariables in which no getter raises has called
\* the getter of every cached variable exactly once, whatever was cached before it,
\* and leaves every variable set; one ended by a getter that raised has called the
\* getters of the variables up to and including that one, once each, and no other.
C2_RefreshFetchesAll ==
    (call.op = "refresh" /\ pc = "idle") =>
        /\ call.out \in {"ok", "error"}
        /\ call.out = "ok" =>
              \A n \in Names : call.calls[n] = 1 /\ fields[n] # None
        /\ call.out = "error" =>
              \A k \in 1..NumCached : call.calls[Name(k)] = IF k <= i THEN 1 ELSE 0

C2_Witness ==
    /\ call.op = "refresh" /\ pc = "idle" /\ call.out = "ok"
    /\ \E n \in Names : call.pre[n] # None
    /\ \E n \in Names : call.pre[n] = None

\* C5: when the getter raises during an access, the access raises, the variable
\* stays unset and no attribute changes; and an access to that variable right
\* after it calls the getter again.
C5_FailedFetchLeavesUnset ==
    /\ []((call.op = "get" /\ call.failed) =>
            (call.out = "error" /\ fields = call.pre /\ fields[call.name] = None))
    /\ [][(call.op = "get" /\ call.failed /\ call'.op = "get" /\ call'.name = call.name)
            => call'.called]_vars

C5_Witness ==
    /\ call.op = "get" /\ call.failed /\ call.out = "error"
    /\ fields[call.name] = None
    /\ \E n \in Names : fields[n] # None

\* C10 as stated: whenever refreshCachedVariables calls a getter, and after one
\* of its getters raised, every variable it has not fetched again is unset.
C10_AllResetBeforeFetch ==
    /\ pc = "fetch" => \A k \in i..NumCached : fields[Name(k)] = None
    /\ (call.op = "refresh" /\ pc = "idle" /\ call.out = "error") =>
          \A k \in i..NumCached : fields[Name(k)] = None

\* C10 as amended: refreshCachedVariables resets and fetches one variable at a
\* time, in the order of CACHED_VARIABLES.  When it calls the getter of a variable,
\* that variable is unset, the earlier ones hold fetched values and the later
\* ones still hold what they held before the refresh; after a getter raised, its
\* variable is unset and the later ones hold what they held before.
C10_ResetOneAtATime ==
    /\ pc = "reset" => \A k \in i..NumCached : fields[Name(k)] = call.pre[Name(k)]
    /\ pc = "fetch" =>
          /\ fields[Name(i)] = None
          /\ \A k \in 1..(i - 1) : fields[Name(k)] # None
          /\ \A k \in (i + 1)..NumCached : fields[Name(k)] = call.pre[Name(k)]
    /\ (call.op = "refresh" /\ pc = "idle" /\ call.out = "error") =>
          /\ fields[Name(i)] = None
          /\ \A k \in 1..(i - 1) : fields[Name(k)] # None
          /\ \A k \in (i + 1)..NumCached : fields[Name(k)] = call.pre[Name(k)]

C10_Witness ==
    /\ call.op = "refresh" /\ pc = "idle" /\ call.out = "error"
    /\ \E k \in (i + 1)..NumCached : fields[Name(k)] # None

(***************************************************************************)
(* Properties of AudioData, checked under SpecAudio and SpecSlice          *)
(***************************************************************************)
\* The samples of the object b, as an array value.
Samples(h, b) == ViewVal(h, b.data)

\* C3: an append of a non-empty object that does not fit behind the cursor of an
\* object with an array raises and leaves the cursor where it was.
C3_AppendBeyondCapacityFails ==
    (res.op = "append" /\ ~IsNone(res.pre.bufs[res.self].data)
       /\ BufLen(res.pre.bufs[res.other]) > 0
       /\ res.pre.bufs[res.self].endindex + BufLen(res.pre.bufs[res.other])
            > BufLen(res.pre.bufs[res.self]))
    => (~res.ok /\ bufs[res.self].endindex = res.pre.bufs[res.self].endindex)

\* C8: the cursor of an object with an array never passes the end of the array.
C8_CursorWithinCapacity ==
    \A b \in 1..Len(bufs) : ~IsNone(bufs[b].data) => bufs[b].endindex <= BufLen(bufs[b])

\* C9: the object a slice returns has the sample rate of its source and the
\* samples the slice selects; an append to it, raising or not, leaves the samples
\* and the cursor of its source as they were, and an append to the source leaves
\* the samples and the cursor of the returned object as they were.
C9_SliceOwnsItsSamples ==
    /\ (res.op = "getitem" /\ res.ok /\ res.new # 0) =>
          /\ bufs[res.new].samplerate = bufs[res.self].samplerate
          /\ res.key.kind = "slice" =>
                Samples(arrays, bufs[res.new])
                  = ViewVal(arrays, Slice(bufs[res.self].data, res.key.a.start.q,
                                          res.key.b.start.q))
    /\ res.op = "append" =>
          \A j \in 1..Len(bufs) :
             (j # res.self /\ (bufs[j].origin = res.self \/ bufs[res.self].origin = j)) =>
                /\ Samples(arrays, bufs[j]) = Samples(res.pre.arrays, res.pre.bufs[j])
                /\ bufs[j].endindex = res.pre.bufs[j].endindex

\* An append to the source of a slice wrote samples the slice had selected.
C9_Witness ==
    /\ res.op = "append" /\ res.ok
    /\ \E j \in 1..Len(bufs) :
          /\ bufs[j].origin = res.self
          /\ BufLen(bufs[j]) = BufLen(bufs[res.self])
    /\ Samples(arrays, bufs[res.self]) # Samples(res.pre.arrays, res.pre.bufs[res.self])

(***************************************************************************)
(* Properties of indexing and of getpieces, checked under SpecIndex: the   *)
(* source bufs[1] holds the samples 1..n.                                  *)
(***************************************************************************)
\* The samples lo .. hi-1 of an array holding 1..n, as an array value.
Range(lo, hi, n) ==
    LET x == Min(lo, n)
        y == Min(hi, n)
    IN [n |-> Max(0, y - x), pre |-> [k \in 1..Max(0, y - x) |-> x + k]]

\* C4, for segments whose starts and durations are floats: getpieces returns an
\* object whose array has sum(int(duration*sr)) + 100000 samples, whose cursor is
\* that sum, and whose samples up to the cursor are the segments' samples in order.
RECURSIVE Pieces(_, _, _)
Pieces(segs, sr, n) ==
    IF segs = << >> THEN << >>
    ELSE Range(ToSample(segs[1].start, sr),
               ToSample(Plus(segs[1].start, segs[1].duration), sr), n).pre
         \o Pieces(Tail(segs), sr, n)

C4_AssembledLength ==
    (res.op = "getpieces"
       /\ \A k \in 1..Len(res.segs) :
             /\ IsFloat(res.segs[k].start) /\ IsFloat(res.segs[k].duration)
             /\ ToSample(Plus(res.segs[k].start, res.segs[k].duration), bufs[1].samplerate)
                  <= BufLen(bufs[1]))
    => /\ res.ok
       /\ BufLen(bufs[res.new]) = Duration(res.segs, bufs[1].samplerate) + Padding
       /\ bufs[res.new].endindex = Duration(res.segs, bufs[1].samplerate)
       /\ Samples(arrays, bufs[res.new]).pre
            = Pieces(res.segs, bufs[1].samplerate, BufLen(bufs[1]))

\* C6: indexing with slice(a, b) of two segments, or with one segment (a = b),
\* returns the samples int(a.start*sr) .. int((b.start+b.duration)*sr) - 1 of the
\* source, whether the starts and durations are ints or floats.  (Stated for the
\* keys every numpy build treats alike: an int start with a float stop raises in
\* some builds, which refutes the claim too.)
C6_SegmentRange ==
    (res.op = "getitem" /\ res.key.kind \in {"seg", "segslice"}
       /\ ~BuildMatters(res.key)) =>
        /\ res.ok
        /\ Samples(arrays, bufs[res.new])
             = Range(ToSample(res.key.a.start, bufs[1].samplerate),
                     ToSample(Plus(res.key.b.start, res.key.b.duration), bufs[1].samplerate),
                     BufLen(bufs[1]))

\* Where v*sr falls for the float key of the latest indexing.
Product == res.key.a.start.q * bufs[1].samplerate

\* The sample at the int index k of an array holding 1..n (0 if k is out of range).
At(k, n) == IF k >= n \/ k < -n THEN 0 ELSE IF k < 0 THEN n + k + 1 ELSE k + 1

\* C7 as stated, for v >= 0: indexing with a float v returns the sample at
\* round(v*sr), whenever that index is in range.
C7_FloatIndexRounds ==
    (res.op = "getitem" /\ res.key.kind = "num" /\ IsFloat(res.key.a.start)
       /\ Product >= 0
       /\ At(Round(Product, Den), BufLen(bufs[1])) # 0)
    => (res.ok /\ res.sample = At(Round(Product, Den), BufLen(bufs[1])))

\* C7 as amended: indexing with a float v returns the sample at int(v*sr), v*sr
\* truncated toward zero, and raises exactly when that index is out of range.
C7_FloatIndexTruncates ==
    (res.op = "getitem" /\ res.key.kind = "num" /\ IsFloat(res.key.a.start))
    => /\ res.ok <=> At(Trunc(Product, Den), BufLen(bufs[1])) # 0
       /\ res.sample = At(Trunc(Product, Den), BufLen(bufs[1]))

\* A float index whose product with the sample rate is not whole.
C7_Witness ==
    /\ res.op = "getitem" /\ res.key.kind = "num" /\ IsFloat(res.key.a.start)
    /\ res.ok
    /\ Product % Den # 0
    /\ Round(Product, Den) # Trunc(Product, Den)
====
